---- MODULE Spec2Model ----
(***************************************************************************)
(* Trading performance analytics of MindTrade AI: the trade table and its  *)
(* data access layer (models/dal.py), the analytics engine                 *)
(* (utils/analytics.py) and the pattern statistics tool                    *)
(* (agents/pattern_finder_agent.py).                                       *)
(*                                                                         *)
(* Numbers.  Prices, quantities and P&L are integers.  Every other float   *)
(* the code produces is a quotient of integers and is kept exactly, as a   *)
(* record [kind, num, den] with den > 0; kind tells a number from the      *)
(* non-numbers the code returns ('N/A', float('inf'), NaN).  Python's      *)
(* round(x, 2) is modelled by Round2: the nearest hundredth, ties to even. *)
(* Times are days, 1, 2, ...; None is the value of a NULL DateTime column. *)
(***************************************************************************)
EXTENDS Integers, Sequences, FiniteSets, TLC

VARIABLES store,    \* the trades table: a sequence of rows, in insertion order
          result    \* what the last call returned to its caller

vars == <<store, result>>

----------------------------------------------------------------------------
(* Bounds of the model *)

\* rows the trades table may hold under Spec
MaxStore == 1
\* rows the trades table may hold under SpecAnalytics
MaxTrades == 3

None == 0
Days == 1..2
InputPrices == 1..3
InputQuantities == 1..2
Directions == {"Long", "Short", "LONG", "SHORT"}

----------------------------------------------------------------------------
(* Floats *)

Abs(x) == IF x < 0 THEN -x ELSE x

RECURSIVE Gcd(_, _)
Gcd(a, b) == IF b = 0 THEN a ELSE Gcd(b, a % b)

\* the float n / d (d > 0), kept in lowest terms
Num(n, d) == [kind |-> "num", num |-> n \div Gcd(Abs(n), d), den |-> d \div Gcd(Abs(n), d)]
NA == [kind |-> "N/A", num |-> 0, den |-> 1]
Inf == [kind |-> "inf", num |-> 0, den |-> 1]
NaN == [kind |-> "nan", num |-> 0, den |-> 1]

IsNum(v) == v.kind = "num"
NumEq(a, b) == IsNum(a) /\ IsNum(b) /\ a.num * b.den = b.num * a.den
NumLeq(a, b) == IsNum(a) /\ IsNum(b) /\ a.num * b.den <= b.num * a.den
NumAdd(a, b) == Num(a.num * b.den + b.num * a.den, a.den * b.den)

\* round(n / d, 2) in hundredths, d > 0
RoundHundredths(n, d) ==
    LET q == (100 * n) \div d
        r == (100 * n) % d
    IN  IF 2 * r < d THEN q
        ELSE IF 2 * r > d THEN q + 1
        ELSE IF q % 2 = 0 THEN q ELSE q + 1

Round2(v) == IF IsNum(v) THEN Num(RoundHundredths(v.num, v.den), 100) ELSE v

----------------------------------------------------------------------------
(* TradeDAL.create_trade *)

CreatePnl(td) ==
    IF td.direction = "Long"
    THEN (td.exit_price - td.entry_price) * td.quantity
    ELSE (td.entry_price - td.exit_price) * td.quantity

RiskAmount(entry_price, stop_price, quantity) ==
    Abs(entry_price - stop_price) * quantity

RMultiple(pnl, risk_amount) ==
    IF risk_amount > 0 THEN Num(pnl, risk_amount) ELSE Num(0, 1)

\* the row create_trade stores: entry_time, exit_time, fees, external_id are
\* not passed to Trade(...), so they take the column defaults
NewTrade(td) ==
    LET pnl == CreatePnl(td)
        risk_amount == RiskAmount(td.entry_price, td.stop_price, td.quantity)
    IN  [direction |-> td.direction,
         entry_price |-> td.entry_price,
         stop_price |-> td.stop_price,
         exit_price |-> td.exit_price,
         quantity |-> td.quantity,
         pnl |-> pnl,
         r_multiple |-> RMultiple(pnl, risk_amount),
         trade_time |-> td.trade_time,
         entry_time |-> None,
         exit_time |-> None,
         fees |-> 0,
         source |-> "manual",
         external_id |-> None,
         setup_id |-> td.setup_id]

TradeData ==
    [direction : Directions,
     entry_price : InputPrices,
     stop_price : InputPrices,
     exit_price : InputPrices,
     quantity : InputQuantities,
     trade_time : {1},
     setup_id : {None}]

\* result: the operation called last, its arguments, the rows its query handed
\* back (in the order handed back) and the value returned
NoArgs == [start_date |-> None, end_date |-> None]
NoResult == [op |-> "none", args |-> NoArgs, trades |-> <<>>, out |-> [total_trades |-> 0]]

CreateTrade(td) ==
    /\ Len(store) < MaxStore
    /\ store' = Append(store, NewTrade(td))
    /\ result' = [op |-> "create_trade", args |-> td, trades |-> <<>>, out |-> NewTrade(td)]

----------------------------------------------------------------------------
(* TradeDAL.update_trade *)

UpdatableFields == <<"direction", "entry_price", "stop_price", "exit_price", "quantity", "pnl">>
PriceKeys == {"entry_price", "stop_price", "exit_price", "quantity"}
InputPnl == {0, 1}

FieldValues(key) ==
    IF key = "direction" THEN Directions
    ELSE IF key = "quantity" THEN InputQuantities
    ELSE IF key = "pnl" THEN InputPnl
    ELSE InputPrices

\* the dictionaries update_trade is given: one or two of the columns
UpdateDict(k1, v1, k2, v2) == (k1 :> v1) @@ (k2 :> v2)

\* for key, value in trade_data.items(): setattr(trade, key, value)
SetAttrs(trade, trade_data) ==
    [f \in DOMAIN trade |-> IF f \in DOMAIN trade_data THEN trade_data[f] ELSE trade[f]]

\* if any(key in trade_data for key in [...]): recalculate
Recalculate(trade, trade_data) ==
    IF (DOMAIN trade_data) \cap PriceKeys # {}
    THEN LET pnl == CreatePnl(trade)
             risk_amount == RiskAmount(trade.entry_price, trade.stop_price, trade.quantity)
         IN  [trade EXCEPT !.pnl = pnl, !.r_multiple = RMultiple(pnl, risk_amount)]
    ELSE trade

UpdatedTrade(trade, trade_data) == Recalculate(SetAttrs(trade, trade_data), trade_data)

UpdateTrade(trade_id, trade_data) ==
    IF trade_id \in 1..Len(store)
    THEN /\ store' = [store EXCEPT ![trade_id] = UpdatedTrade(store[trade_id], trade_data)]
         /\ result' = [op |-> "update_trade", args |-> DOMAIN trade_data, trades |-> <<>>,
                       out |-> UpdatedTrade(store[trade_id], trade_data)]
    ELSE /\ result' = [op |-> "update_trade_none", args |-> DOMAIN trade_data, trades |-> <<>>,
                       out |-> [total_trades |-> 0]]
         /\ UNCHANGED store

----------------------------------------------------------------------------
(* DeltaCSVImporter.convert_to_internal_format and import_to_database *)

CsvImportSetup == 1
RiskPercent == 2

\* r_multiple of a converted row: pnl / (entry_price * quantity * risk_percent / 100)
\* when pnl and that risk are not 0, else 0.0
CsvRMultiple(pnl, entry_price, quantity) ==
    IF pnl # 0 /\ entry_price > 0 /\ entry_price * quantity * RiskPercent > 0
    THEN Num(100 * pnl, entry_price * quantity * RiskPercent)
    ELSE Num(0, 1)

\* the row Trade(**trade_data) stores for a CSV line; exec_price is a multiple
\* of 50 here, so that the default stop exec_price * 0.98 is an integer
ImportedTrade(row) ==
    [direction |-> row.side,
     entry_price |-> row.exec_price,
     stop_price |-> (98 * row.exec_price) \div 100,
     exit_price |-> row.exec_price,
     quantity |-> row.quantity,
     pnl |-> row.pnl,
     r_multiple |-> CsvRMultiple(row.pnl, row.exec_price, row.quantity),
     trade_time |-> row.timestamp,
     entry_time |-> row.timestamp,
     exit_time |-> row.timestamp,
     fees |-> row.fees,
     source |-> "csv_import",
     external_id |-> row.order_id,
     setup_id |-> CsvImportSetup]

----------------------------------------------------------------------------
(* Sequences of numbers: what pandas and the Python built-ins compute *)

RECURSIVE SumSeq(_)
SumSeq(s) == IF s = <<>> THEN 0 ELSE s[1] + SumSeq(Tail(s))

RECURSIVE NumSum(_)
NumSum(s) == IF s = <<>> THEN Num(0, 1) ELSE NumAdd(s[1], NumSum(Tail(s)))

SetMax(S) == CHOOSE x \in S : \A y \in S : y <= x
SetMin(S) == CHOOSE x \in S : \A y \in S : x <= y

Column(trades, f) == [i \in 1..Len(trades) |-> trades[i][f]]
IsWin(pnl) == pnl > 0
IsLoss(pnl) == pnl < 0
IsBreakEven(pnl) == pnl = 0

\* Series.cumsum()
CumSum(s) == [i \in 1..Len(s) |-> SumSeq(SubSeq(s, 1, i))]
\* Series.expanding().max()
ExpandingMax(s) == [i \in 1..Len(s) |-> SetMax({s[j] : j \in 1..i})]
\* cumulative_pnl - running_max
Drawdown(pnl) == [i \in 1..Len(pnl) |-> CumSum(pnl)[i] - ExpandingMax(CumSum(pnl))[i]]

\* mean of a non-empty column of integers, of floats
Mean(s) == Num(SumSeq(s), Len(s))
NumMean(s) == LET t == NumSum(s) IN Num(t.num, t.den * Len(s))

\* df['win'].groupby((df['win'] != df['win'].shift()).cumsum()).cumcount() + 1:
\* the position of row i in its run of equal 'win' values
RECURSIVE Streak(_, _)
Streak(win, i) ==
    IF i = 1 \/ win[i] # win[i - 1] THEN 1 ELSE Streak(win, i - 1) + 1

\* the rows a query hands back: SQL without ORDER BY fixes no order
Orders(S) ==
    {o \in [1..Cardinality(S) -> S] : \A i, j \in 1..Cardinality(S) : i # j => o[i] # o[j]}

Rows(order) == [k \in DOMAIN order |-> store[order[k]]]

----------------------------------------------------------------------------
(* TradingAnalytics.get_trading_summary *)

\* query.filter(Trade.entry_time >= start_date), .filter(Trade.exit_time <= end_date):
\* a comparison with NULL selects nothing
SummaryQuery(start_date, end_date) ==
    {i \in 1..Len(store) :
        /\ start_date # None => (store[i].entry_time # None /\ store[i].entry_time >= start_date)
        /\ end_date # None => (store[i].exit_time # None /\ store[i].exit_time <= end_date)}

WinningTrades(pnl) == Len(SelectSeq(pnl, IsWin))
LosingTrades(pnl) == Len(SelectSeq(pnl, IsLoss))
\* a slip in the break-even test: pnl >= 0 for pnl == 0
BreakEvenTradesNonStrict(pnl) == Len(SelectSeq(pnl, LAMBDA x : x >= 0))
BreakEvenTrades(pnl) == Len(SelectSeq(pnl, IsBreakEven))

WinRate(winning_trades, total_trades) ==
    IF total_trades > 0 THEN Num(winning_trades * 100, total_trades) ELSE Num(0, 1)

AvgWin(pnl) ==
    IF WinningTrades(pnl) > 0 THEN Mean(SelectSeq(pnl, IsWin)) ELSE Num(0, 1)
AvgLoss(pnl) ==
    IF LosingTrades(pnl) > 0 THEN Mean(SelectSeq(pnl, IsLoss)) ELSE Num(0, 1)

\* abs(sum of wins / sum of losses) if losing_trades > 0 else float('inf')
ProfitFactor(pnl) ==
    IF LosingTrades(pnl) > 0
    THEN Num(SumSeq(SelectSeq(pnl, IsWin)), Abs(SumSeq(SelectSeq(pnl, IsLoss))))
    ELSE Inf

\* round(profit_factor, 2) if profit_factor != float('inf') else 'N/A'
ReportProfitFactor(profit_factor) ==
    IF profit_factor # Inf THEN Round2(profit_factor) ELSE NA

MaxDrawdown(pnl) == SetMin({Drawdown(pnl)[i] : i \in 1..Len(pnl)})

MaxDrawdownPct(pnl) ==
    LET peak == SetMax({ExpandingMax(CumSum(pnl))[i] : i \in 1..Len(pnl)})
    IN  IF peak > 0 THEN Num(MaxDrawdown(pnl) * 100, peak) ELSE Num(0, 1)

\* df['win'] = df['pnl'] > 0
WinColumn(pnl) == [i \in 1..Len(pnl) |-> pnl[i] > 0]

MaxConsecutiveWins(pnl) ==
    IF WinningTrades(pnl) > 0
    THEN SetMax({Streak(WinColumn(pnl), i) : i \in {j \in 1..Len(pnl) : WinColumn(pnl)[j]}})
    ELSE 0

MaxConsecutiveLosses(pnl) ==
    IF LosingTrades(pnl) > 0
    THEN SetMax({Streak(WinColumn(pnl), i) : i \in {j \in 1..Len(pnl) : ~WinColumn(pnl)[j]}})
    ELSE 0

\* Series.max() / Series.min() of a datetime column skip NULLs; of a column
\* that holds only None they are NaN
Present(times) == {times[i] : i \in 1..Len(times)} \ {None}

\* (df['exit_time'].max() - df['entry_time'].min()).days, evaluated when
\* len(df) > 1: NaN - NaN is a float and has no attribute 'days'
TotalDaysRaises(trades) ==
    /\ Len(trades) > 1
    /\ \/ Present(Column(trades, "exit_time")) = {}
       \/ Present(Column(trades, "entry_time")) = {}

TotalDays(trades) ==
    IF Len(trades) > 1
    THEN SetMax(Present(Column(trades, "exit_time"))) - SetMin(Present(Column(trades, "entry_time")))
    ELSE 0

TradesPerDay(trades) ==
    IF Len(trades) > 1
    THEN Num(Len(trades), IF TotalDays(trades) > 1 THEN TotalDays(trades) ELSE 1)
    ELSE Num(0, 1)
\* floor of the square root of n, 0 <= n
RECURSIVE ISqrtIn(_, _, _)
ISqrtIn(n, lo, hi) ==
    IF lo = hi THEN lo
    ELSE LET mid == (lo + hi + 1) \div 2
         IN  IF mid * mid <= n THEN ISqrtIn(n, mid, hi) ELSE ISqrtIn(n, lo, mid - 1)
ISqrt(n) == ISqrtIn(n, 0, IF n < 46340 THEN n ELSE 46340)

\* round(sqrt(n / d), 2) in hundredths, n >= 0, d > 0
RoundSqrtHundredths(n, d) == (ISqrt((40000 * n) \div d) + 1) \div 2

\* the square of df['pnl'].std(): the sample variance, defined from two rows on
PnlVariance(pnl) ==
    LET n == Len(pnl)
        squares == SumSeq([i \in 1..n |-> pnl[i] * pnl[i]])
    IN  Num(n * squares - SumSeq(pnl) * SumSeq(pnl), n * (n - 1))

\* round(pnl_std, 2): the standard deviation of a single row is NaN
PnlVolatility(pnl) ==
    IF Len(pnl) < 2 THEN NaN
    ELSE Num(RoundSqrtHundredths(PnlVariance(pnl).num, PnlVariance(pnl).den), 100)

\* round((df['pnl'].mean() / pnl_std) if pnl_std > 0 else 0, 2); NaN > 0 is False
SharpeRatio(pnl) ==
    IF Len(pnl) < 2 \/ PnlVariance(pnl).num = 0 THEN Num(0, 1)
    ELSE LET v == PnlVariance(pnl)
             m == Mean(pnl)
             h == RoundSqrtHundredths(m.num * m.num * v.den, m.den * m.den * v.num)
         IN  Num(IF m.num < 0 THEN -h ELSE h, 100)

EmptySummary ==
    [overview |-> [total_trades |-> 0, winning_trades |-> 0, losing_trades |-> 0,
                   break_even_trades |-> 0, win_rate |-> Num(0, 1), profit_factor |-> NA],
     pnl_metrics |-> [total_pnl |-> Num(0, 1), total_fees |-> Num(0, 1), net_pnl |-> Num(0, 1),
                      avg_win |-> Num(0, 1), avg_loss |-> Num(0, 1), avg_trade |-> Num(0, 1)],
     risk_metrics |-> [avg_r_multiple |-> Num(0, 1), total_r |-> Num(0, 1),
                       max_drawdown |-> Num(0, 1), max_drawdown_pct |-> Num(0, 1),
                       sharpe_ratio |-> Num(0, 1)],
     behavioral_metrics |-> [max_consecutive_wins |-> 0, max_consecutive_losses |-> 0,
                             trades_per_day |-> Num(0, 1), pnl_volatility |-> Num(0, 1)],
     period |-> [start_date |-> None, end_date |-> None, total_days |-> 0]]

\* the dictionary built at analytics.py:90-125
ComputedSummary(trades, start_date, end_date) ==
    LET pnl == Column(trades, "pnl")
        total_trades == Len(trades)
        total_pnl == SumSeq(pnl)
        total_fees == SumSeq(Column(trades, "fees"))
    IN  [overview |-> [total_trades |-> total_trades,
                       winning_trades |-> WinningTrades(pnl),
                       losing_trades |-> LosingTrades(pnl),
                       break_even_trades |-> BreakEvenTrades(pnl),
                       win_rate |-> Round2(WinRate(WinningTrades(pnl), total_trades)),
                       profit_factor |-> ReportProfitFactor(ProfitFactor(pnl))],
         pnl_metrics |-> [total_pnl |-> Round2(Num(total_pnl, 1)),
                          total_fees |-> Round2(Num(total_fees, 1)),
                          net_pnl |-> Round2(Num(total_pnl - total_fees, 1)),
                          avg_win |-> Round2(AvgWin(pnl)),
                          avg_loss |-> Round2(AvgLoss(pnl)),
                          avg_trade |-> Round2(Num(total_pnl, total_trades))],
         risk_metrics |-> [avg_r_multiple |-> Round2(NumMean(Column(trades, "r_multiple"))),
                           total_r |-> Round2(NumSum(Column(trades, "r_multiple"))),
                           max_drawdown |-> Round2(Num(MaxDrawdown(pnl), 1)),
                           max_drawdown_pct |-> Round2(MaxDrawdownPct(pnl)),
                           sharpe_ratio |-> SharpeRatio(pnl)],
         behavioral_metrics |-> [max_consecutive_wins |-> MaxConsecutiveWins(pnl),
                                 max_consecutive_losses |-> MaxConsecutiveLosses(pnl),
                                 trades_per_day |-> Round2(TradesPerDay(trades)),
                                 pnl_volatility |-> PnlVolatility(pnl)],
         period |-> [start_date |-> start_date, end_date |-> end_date,
                     total_days |-> TotalDays(trades)]]

\* if not trades: empty summary; except Exception: empty summary
TradingSummary(trades, start_date, end_date) ==
    IF trades = <<>> THEN EmptySummary
    ELSE IF TotalDaysRaises(trades) THEN EmptySummary
    ELSE ComputedSummary(trades, start_date, end_date)

GetTradingSummary(start_date, end_date) ==
    \E order \in Orders(SummaryQuery(start_date, end_date)) :
        /\ result' = [op |-> "get_trading_summary",
                      args |-> [start_date |-> start_date, end_date |-> end_date],
                      trades |-> Rows(order),
                      out |-> TradingSummary(Rows(order), start_date, end_date)]
        /\ UNCHANGED store

----------------------------------------------------------------------------
(* AnalyticsDAL.get_trading_summary *)

\* query.filter(Trade.trade_time >= start_date), .filter(Trade.trade_time <= end_date)
DalQuery(start_date, end_date) ==
    {i \in 1..Len(store) :
        /\ start_date # None => store[i].trade_time >= start_date
        /\ end_date # None => store[i].trade_time <= end_date}

\* sorted(trades, key=lambda x: x.trade_time): stable
SortedByTradeTime(trades) ==
    LET n == Len(trades)
        Before(j, i) == \/ trades[j].trade_time < trades[i].trade_time
                        \/ trades[j].trade_time = trades[i].trade_time /\ j < i
        Rank(i) == Cardinality({j \in 1..n : Before(j, i)}) + 1
    IN  [k \in 1..n |-> trades[CHOOSE i \in 1..n : Rank(i) = k]]

\* the loop of dal.py:284-294, from trade i on
RECURSIVE DalDrawdownLoop(_, _, _, _, _)
DalDrawdownLoop(pnl, i, cumulative_pnl, peak, max_drawdown) ==
    IF i > Len(pnl) THEN max_drawdown
    ELSE LET cum == cumulative_pnl + pnl[i]
             pk == IF cum > peak THEN cum ELSE peak
             drawdown == pk - cum
         IN  DalDrawdownLoop(pnl, i + 1, cum, pk,
                             IF drawdown > max_drawdown THEN drawdown ELSE max_drawdown)

DalMaxDrawdown(trades) ==
    DalDrawdownLoop(Column(SortedByTradeTime(trades), "pnl"), 1, 0, 0, 0)

DalProfitFactor(pnl) ==
    LET gross_profit == SumSeq(SelectSeq(pnl, IsWin))
        gross_loss == Abs(SumSeq(SelectSeq(pnl, IsLoss)))
    IN  IF gross_loss > 0 THEN Num(gross_profit, gross_loss) ELSE Inf

DalEmptySummary ==
    [total_trades |-> 0, winning_trades |-> 0, losing_trades |-> 0, win_rate |-> Num(0, 1),
     total_pnl |-> 0, avg_pnl |-> Num(0, 1), avg_r_multiple |-> Num(0, 1),
     max_drawdown |-> 0, profit_factor |-> Num(0, 1)]

DalComputedSummary(trades) ==
    LET pnl == Column(trades, "pnl")
        total_trades == Len(trades)
    IN  [total_trades |-> total_trades,
         winning_trades |-> WinningTrades(pnl),
         losing_trades |-> LosingTrades(pnl),
         win_rate |-> WinRate(WinningTrades(pnl), total_trades),
         total_pnl |-> SumSeq(pnl),
         avg_pnl_per_trade |-> Num(SumSeq(pnl), total_trades),
         avg_r_multiple |-> NumMean(Column(trades, "r_multiple")),
         max_drawdown |-> DalMaxDrawdown(trades),
         profit_factor |-> DalProfitFactor(pnl)]

DalTradingSummary(trades) ==
    IF trades = <<>> THEN DalEmptySummary ELSE DalComputedSummary(trades)

DalGetTradingSummary(start_date, end_date) ==
    \E order \in Orders(DalQuery(start_date, end_date)) :
        /\ result' = [op |-> "dal_get_trading_summary",
                      args |-> [start_date |-> start_date, end_date |-> end_date],
                      trades |-> Rows(order),
                      out |-> DalTradingSummary(Rows(order))]
        /\ UNCHANGED store

----------------------------------------------------------------------------
(* AIOrchestrator._extract_performance_data *)

\* the dictionary returned for a non-empty list of trade dictionaries; the
\* drawdown loop of ai_orchestrator.py:284-295 is that of dal.py:284-294
PerformanceData(trades_data) ==
    LET pnl == Column(trades_data, "pnl")
        total_trades == Len(trades_data)
    IN  [total_trades |-> total_trades,
         winning_trades |-> WinningTrades(pnl),
         win_rate |-> WinRate(WinningTrades(pnl), total_trades),
         total_pnl |-> SumSeq(pnl),
         avg_r_multiple |-> NumMean(Column(trades_data, "r_multiple")),
         max_drawdown |->
             DalDrawdownLoop(Column(SortedByTradeTime(trades_data), "pnl"), 1, 0, 0, 0)]

\* if not trades_data: the four zero fields
EmptyPerformanceData ==
    [total_trades |-> 0, win_rate |-> Num(0, 1), avg_r_multiple |-> Num(0, 1), total_pnl |-> 0]

\* the caller passes the trades as a list of dictionaries, in an order of
\* its choosing
ExtractPerformanceData ==
    \E order \in Orders(1..Len(store)) :
        /\ result' = [op |-> "extract_performance_data",
                      args |-> NoArgs,
                      trades |-> Rows(order),
                      out |-> IF Rows(order) = <<>> THEN EmptyPerformanceData
                              ELSE PerformanceData(Rows(order))]
        /\ UNCHANGED store

----------------------------------------------------------------------------
(* TradingAnalytics.generate_pnl_curve *)

NegInf == [kind |-> "-inf", num |-> 0, den |-> 1]

\* df.sort_values('exit_time'): ascending, NULLs last; rows with equal
\* exit_time in any order
SortedByExitTime(trades) ==
    \A i, j \in 1..Len(trades) :
        i < j => \/ trades[j].exit_time = None
                 \/ trades[i].exit_time # None /\ trades[i].exit_time <= trades[j].exit_time

\* (df['drawdown'] / df['running_max'] * 100).fillna(0): float division, where
\* 0 / 0 is NaN (filled with 0) and x / 0 is an infinity
DrawdownPct(drawdown, running_max) ==
    IF running_max # 0
    THEN (IF running_max > 0 THEN Num(drawdown * 100, running_max)
                             ELSE Num(-(drawdown * 100), -running_max))
    ELSE IF drawdown = 0 THEN Num(0, 1)
    ELSE IF drawdown < 0 THEN NegInf ELSE Inf

PnlCurve(trades) ==
    LET pnl == Column(trades, "pnl")
    IN  [cumulative_pnl |-> CumSum(pnl),
         running_max |-> ExpandingMax(CumSum(pnl)),
         drawdown |-> Drawdown(pnl),
         drawdown_pct |-> [i \in 1..Len(pnl) |->
                              DrawdownPct(Drawdown(pnl)[i], ExpandingMax(CumSum(pnl))[i])],
         trade_number |-> [i \in 1..Len(pnl) |-> i]]

\* _get_empty_chart("No trades found for the selected period")
EmptyChart ==
    [cumulative_pnl |-> <<>>, running_max |-> <<>>, drawdown |-> <<>>,
     drawdown_pct |-> <<>>, trade_number |-> <<>>]

GeneratePnlCurve(start_date, end_date) ==
    \E order \in Orders(SummaryQuery(start_date, end_date)) :
        /\ SortedByExitTime(Rows(order))
        /\ result' = [op |-> "generate_pnl_curve",
                      args |-> [start_date |-> start_date, end_date |-> end_date],
                      trades |-> Rows(order),
                      out |-> IF Rows(order) = <<>> THEN EmptyChart ELSE PnlCurve(Rows(order))]
        /\ UNCHANGED store

----------------------------------------------------------------------------
(* PatternAnalysisTool._analyze_performance_patterns *)

\* df['is_winner'] = df['pnl'] > 0; df['streak'] numbers the runs of equal
\* is_winner; the groups whose first is_winner is True / False
RunStarts(is_winner) ==
    {i \in 1..Len(is_winner) : i = 1 \/ is_winner[i] # is_winner[i - 1]}

RECURSIVE RunLength(_, _)
RunLength(is_winner, i) ==
    IF i < Len(is_winner) /\ is_winner[i + 1] = is_winner[i]
    THEN 1 + RunLength(is_winner, i + 1) ELSE 1

WinningStreaks(pnl) ==
    {i \in RunStarts(WinColumn(pnl)) : WinColumn(pnl)[i]}
\* a slip in the selection of the losing streaks: the runs that start with a
\* loss, for the runs whose first is_winner is False
LosingStreaksStrict(pnl) ==
    {i \in RunStarts(WinColumn(pnl)) : pnl[i] < 0}
LosingStreaks(pnl) ==
    {i \in RunStarts(WinColumn(pnl)) : ~WinColumn(pnl)[i]}

PerformancePatterns(pnl) ==
    (IF WinningStreaks(pnl) # {}
     THEN <<[pattern_name |-> "Longest Winning Streak",
             value |-> SetMax({RunLength(WinColumn(pnl), i) : i \in WinningStreaks(pnl)})]>>
     ELSE <<>>)
    \o
    (IF LosingStreaks(pnl) # {}
     THEN <<[pattern_name |-> "Longest Losing Streak",
             value |-> SetMax({RunLength(WinColumn(pnl), i) : i \in LosingStreaks(pnl)})]>>
     ELSE <<>>)

\* df = pd.DataFrame(trades): the columns of the list the caller passes,
\* here the pnl and the quantity of each trade
DataFrame(trades) ==
    [pnl |-> Column(trades, "pnl"), quantity |-> Column(trades, "quantity")]

\* (df['is_winner'] != df['is_winner'].shift()).cumsum(): the number of the
\* run a row is in
StreakColumn(is_winner) ==
    [i \in 1..Len(is_winner) |-> Cardinality({j \in RunStarts(is_winner) : j <= i})]

\* the frame of _run after _analyze_performance_patterns has assigned
\* df['is_winner'] and df['streak'] to it
AfterPerformancePatterns(df) ==
    [pnl |-> df.pnl, quantity |-> df.quantity,
     is_winner |-> WinColumn(df.pnl),
     streak |-> StreakColumn(WinColumn(df.pnl))]

\* df.select_dtypes(include=[float, int]).columns in _analyze_correlations,
\* called last with the frame of _run: the bool column is_winner is left out
NumericColumns(df) == DOMAIN df \ {"is_winner"}

\* the caller passes the trades as a JSON list, in an order of its choosing;
\* an empty list is answered with an error before any analysis
AnalyzePerformancePatterns ==
    \E order \in Orders(1..Len(store)) :
        /\ result' = [op |-> "analyze_performance_patterns",
                      args |-> NoArgs,
                      trades |-> Rows(order),
                      out |-> IF Rows(order) = <<>> THEN <<>>
                              ELSE PerformancePatterns(Column(Rows(order), "pnl")),
                      df |-> IF Rows(order) = <<>> THEN DataFrame(Rows(order))
                             ELSE AfterPerformancePatterns(DataFrame(Rows(order))),
                      numeric_columns |->
                          IF Rows(order) = <<>> THEN NumericColumns(DataFrame(Rows(order)))
                          ELSE NumericColumns(AfterPerformancePatterns(DataFrame(Rows(order))))]
        /\ UNCHANGED store

----------------------------------------------------------------------------
(* PatternAnalysisTool._analyze_streak_patterns *)

\* df.sort_values('trade_time'): ascending, rows with equal trade_time in
\* any order
OrderedByTradeTime(trades) ==
    \A i, j \in 1..Len(trades) : i < j => trades[i].trade_time <= trades[j].trade_time

\* a slip in the test of the previous trade: prev_pnl >= 0 for prev_pnl > 0
AfterWinNonStrict(pnl) == [i \in 1..Len(pnl) |-> i > 1 /\ pnl[i - 1] >= 0]
\* df['prev_pnl'] = df['pnl'].shift(1); df['after_win'] = df['prev_pnl'] > 0:
\* the first row has prev_pnl NaN, and NaN > 0 is False
AfterWin(pnl) == [i \in 1..Len(pnl) |-> i > 1 /\ pnl[i - 1] > 0]
\* df['after_loss'] = df['prev_pnl'] < 0
AfterLoss(pnl) == [i \in 1..Len(pnl) |-> i > 1 /\ pnl[i - 1] < 0]

\* the dictionary appended for the rows selected by the column after: the
\* mean of their pnl and the share of winners among them
AfterPerformance(pattern_name, pnl, after) ==
    LET selected == {i \in 1..Len(pnl) : after[i]}
    IN  [pattern_name |-> pattern_name,
         avg_pnl |-> Num(SumSeq([i \in 1..Len(pnl) |-> IF after[i] THEN pnl[i] ELSE 0]),
                         Cardinality(selected)),
         win_rate |-> Num(100 * Cardinality({i \in selected : pnl[i] > 0}),
                          Cardinality(selected))]

StreakPatterns(pnl) ==
    IF Len(pnl) > 1
    THEN (IF \E i \in 1..Len(pnl) : AfterWin(pnl)[i]
          THEN <<AfterPerformance("Performance After Wins", pnl, AfterWin(pnl))>>
          ELSE <<>>)
         \o
         (IF \E i \in 1..Len(pnl) : AfterLoss(pnl)[i]
          THEN <<AfterPerformance("Performance After Losses", pnl, AfterLoss(pnl))>>
          ELSE <<>>)
    ELSE <<>>

\* result.trades is the frame after sort_values: the trades the caller passed,
\* in an order of ascending trade_time
AnalyzeStreakPatterns ==
    \E order \in Orders(1..Len(store)) :
        /\ OrderedByTradeTime(Rows(order))
        /\ result' = [op |-> "analyze_streak_patterns",
                      args |-> NoArgs,
                      trades |-> Rows(order),
                      out |-> StreakPatterns(Column(Rows(order), "pnl")),
                      after_win |-> AfterWin(Column(Rows(order), "pnl")),
                      after_loss |-> AfterLoss(Column(Rows(order), "pnl"))]
        /\ UNCHANGED store

----------------------------------------------------------------------------
(* The analytics specification: any table of a few rows, written by        *)
(* create_trade or by the CSV import, and the analyses run on it.          *)

SampleRows ==
    << NewTrade([direction |-> "Long", entry_price |-> 2, stop_price |-> 1, exit_price |-> 3,
                 quantity |-> 1, trade_time |-> 1, setup_id |-> None]),
       NewTrade([direction |-> "Long", entry_price |-> 2, stop_price |-> 2, exit_price |-> 3,
                 quantity |-> 1, trade_time |-> 2, setup_id |-> None]),
       NewTrade([direction |-> "Long", entry_price |-> 2, stop_price |-> 1, exit_price |-> 1,
                 quantity |-> 1, trade_time |-> 1, setup_id |-> None]),
       ImportedTrade([side |-> "long", exec_price |-> 50, quantity |-> 1, pnl |-> 2,
                      timestamp |-> 1, fees |-> 1, order_id |-> 1]),
       ImportedTrade([side |-> "long", exec_price |-> 50, quantity |-> 1, pnl |-> 0,
                      timestamp |-> 1, fees |-> 0, order_id |-> 2]),
       ImportedTrade([side |-> "long", exec_price |-> 50, quantity |-> 1, pnl |-> 0,
                      timestamp |-> 2, fees |-> 0, order_id |-> 3]),
       ImportedTrade([side |-> "long", exec_price |-> 50, quantity |-> 1, pnl |-> -1,
                      timestamp |-> 1, fees |-> 1, order_id |-> 4]),
       ImportedTrade([side |-> "long", exec_price |-> 50, quantity |-> 1, pnl |-> -1,
                      timestamp |-> 2, fees |-> 1, order_id |-> 5]) >>

\* the tables of at most MaxTrades sample rows; one insertion order stands
\* for all, since a query hands the rows back in any order
StartDates == {None, 2}
EndDates == {None} \cup Days

InitAnalytics ==
    /\ \E n \in 0..MaxTrades :
          store \in {[i \in 1..n |-> SampleRows[idx[i]]] :
                       idx \in {f \in [1..n -> 1..Len(SampleRows)] :
                                   \A i, j \in 1..n : i <= j => f[i] <= f[j]}}
    /\ result = NoResult

NextAnalytics ==
    \/ \E start_date \in StartDates, end_date \in EndDates : GetTradingSummary(start_date, end_date)
    \/ \E start_date \in StartDates, end_date \in EndDates : DalGetTradingSummary(start_date, end_date)
    \/ \E start_date \in StartDates, end_date \in EndDates : GeneratePnlCurve(start_date, end_date)
    \/ AnalyzePerformancePatterns
    \/ ExtractPerformanceData
    \/ AnalyzeStreakPatterns

SpecAnalytics == InitAnalytics /\ [][NextAnalytics]_vars

----------------------------------------------------------------------------
(* What the specification asks of the summaries, the curve and the         *)
(* streaks, stated on the rows result.trades that the call analysed.       *)

IsSummary == result.op = "get_trading_summary"
IsDalSummary == result.op = "dal_get_trading_summary"
IsCurve == result.op = "generate_pnl_curve"
IsPatterns == result.op = "analyze_performance_patterns"

AnalysedPnl == Column(result.trades, "pnl")

Wins(pnl) == Cardinality({i \in 1..Len(pnl) : pnl[i] > 0})
Losses(pnl) == Cardinality({i \in 1..Len(pnl) : pnl[i] < 0})
GrossProfit(pnl) == SumSeq([i \in 1..Len(pnl) |-> IF pnl[i] > 0 THEN pnl[i] ELSE 0])
GrossLoss(pnl) == Abs(SumSeq([i \in 1..Len(pnl) |-> IF pnl[i] < 0 THEN pnl[i] ELSE 0]))

\* the trades whose R-multiple is defined: those with a risk amount above 0
HasRisk(t) == Abs(t.entry_price - t.stop_price) * t.quantity > 0
DefinedR(trades) == Column(SelectSeq(trades, HasRisk), "r_multiple")

\* section 4.3: cumulative P&L, running peak (never below 0), drawdown
CumulativePnl(pnl, i) == SumSeq(SubSeq(pnl, 1, i))
RunningPeak(pnl, i) == SetMax({0} \cup {CumulativePnl(pnl, j) : j \in 1..i})
DrawdownAbs(pnl, i) == CumulativePnl(pnl, i) - RunningPeak(pnl, i)
MaxDrawdownAbs(pnl) == SetMin({0} \cup {DrawdownAbs(pnl, i) : i \in 1..Len(pnl)})

\* section 4.4: the longest run of consecutive wins (sign 1) or losses (sign -1)
Sign(x) == IF x > 0 THEN 1 ELSE IF x < 0 THEN -1 ELSE 0
LongestRun(pnl, sign) ==
    SetMax({0} \cup {j - i + 1 : <<i, j>> \in
                        {r \in (1..Len(pnl)) \X (1..Len(pnl)) :
                            r[1] <= r[2] /\ \A k \in r[1]..r[2] : Sign(pnl[k]) = sign}})

TimeOrdered(trades) ==
    \A i, j \in 1..Len(trades) : i <= j => trades[i].trade_time <= trades[j].trade_time

\* the value listed under pattern_name, 0 when the pattern is not listed
PatternValue(patterns, pattern_name) ==
    IF \E k \in 1..Len(patterns) : patterns[k].pattern_name = pattern_name
    THEN patterns[CHOOSE k \in 1..Len(patterns) : patterns[k].pattern_name = pattern_name].value
    ELSE 0

\* C3: in every summary of TradingAnalytics.get_trading_summary the three
\* counts are non-negative and winning + losing + break-even = total_trades.
C3_CountsSumToTotal ==
    IsSummary =>
        LET o == result.out.overview
        IN  /\ o.winning_trades >= 0 /\ o.losing_trades >= 0 /\ o.break_even_trades >= 0
            /\ o.winning_trades + o.losing_trades + o.break_even_trades = o.total_trades

C3_Witness ==
    /\ IsSummary
    /\ result.out.overview.winning_trades >= 1
    /\ result.out.overview.losing_trades >= 1
    /\ result.out.overview.break_even_trades >= 1

\* C4: for every non-empty trade collection win_rate = winning / total * 100
\* (to the two decimals get_trading_summary reports), counting as a win only a
\* trade with pnl > 0, and 0 <= win_rate <= 100.
C4_WinRate ==
    /\ IsSummary /\ result.trades # <<>> =>
          LET w == result.out.overview.win_rate
          IN  /\ NumEq(w, Round2(Num(Wins(AnalysedPnl) * 100, Len(AnalysedPnl))))
              /\ NumLeq(Num(0, 1), w) /\ NumLeq(w, Num(100, 1))
    /\ IsDalSummary /\ result.trades # <<>> =>
          LET w == result.out.win_rate
          IN  /\ NumEq(w, Num(Wins(AnalysedPnl) * 100, Len(AnalysedPnl)))
              /\ NumLeq(Num(0, 1), w) /\ NumLeq(w, Num(100, 1))

\* C5: profit_factor = sum of positive pnl / |sum of negative pnl|, and the
\* undefined sentinel (not a number) whenever the losing sum is 0, the empty
\* collection included.
C5_ProfitFactor ==
    /\ IsSummary =>
          LET pf == result.out.overview.profit_factor
          IN  IF GrossLoss(AnalysedPnl) > 0
              THEN NumEq(pf, Round2(Num(GrossProfit(AnalysedPnl), GrossLoss(AnalysedPnl))))
              ELSE ~IsNum(pf)
    /\ IsDalSummary =>
          LET pf == result.out.profit_factor
          IN  IF GrossLoss(AnalysedPnl) > 0
              THEN NumEq(pf, Num(GrossProfit(AnalysedPnl), GrossLoss(AnalysedPnl)))
              ELSE ~IsNum(pf)

\* C6: avg_r_multiple is the mean of r_multiple over exactly the trades whose
\* r_multiple is defined (zero-risk trades excluded), and undefined when no
\* trade has a defined r_multiple.
C6_AvgRMultiple ==
    /\ IsSummary =>
          LET r == result.out.risk_metrics.avg_r_multiple
          IN  IF DefinedR(result.trades) # <<>>
              THEN NumEq(r, Round2(NumMean(DefinedR(result.trades))))
              ELSE ~IsNum(r)
    /\ IsDalSummary =>
          LET r == result.out.avg_r_multiple
          IN  IF DefinedR(result.trades) # <<>>
              THEN NumEq(r, NumMean(DefinedR(result.trades)))
              ELSE ~IsNum(r)

\* C7: for an empty (filtered) trade set the summary has all counts 0, all
\* monetary fields 0, and profit_factor and avg_r_multiple both undefined.
C7_EmptySummary ==
    /\ IsSummary /\ result.trades = <<>> =>
          LET s == result.out
          IN  /\ s.overview.total_trades = 0 /\ s.overview.winning_trades = 0
              /\ s.overview.losing_trades = 0 /\ s.overview.break_even_trades = 0
              /\ \A f \in DOMAIN s.pnl_metrics : NumEq(s.pnl_metrics[f], Num(0, 1))
              /\ ~IsNum(s.overview.profit_factor)
              /\ ~IsNum(s.risk_metrics.avg_r_multiple)
    /\ IsDalSummary /\ result.trades = <<>> =>
          LET s == result.out
          IN  /\ s.total_trades = 0 /\ s.winning_trades = 0 /\ s.losing_trades = 0
              /\ s.total_pnl = 0 /\ NumEq(s.avg_pnl, Num(0, 1))
              /\ ~IsNum(s.profit_factor)
              /\ ~IsNum(s.avg_r_multiple)

\* C8: on a time-ordered sequence the curve has cumulative_pnl[i] = sum of
\* pnl[1..i], running_peak[1] = max(0, cumulative_pnl[1]), running_peak[i] =
\* max(running_peak[i-1], cumulative_pnl[i]), drawdown[i] = cumulative_pnl[i] -
\* running_peak[i]; the running peak is never negative.
C8_DrawdownCurve ==
    IsCurve =>
        LET c == result.out
            Max2(a, b) == IF a >= b THEN a ELSE b
        IN  /\ Len(c.cumulative_pnl) = Len(AnalysedPnl)
            /\ \A i \in 1..Len(AnalysedPnl) :
                  /\ c.cumulative_pnl[i] = CumulativePnl(AnalysedPnl, i)
                  /\ c.running_max[i] =
                        Max2(IF i = 1 THEN 0 ELSE c.running_max[i - 1], c.cumulative_pnl[i])
                  /\ c.drawdown[i] = c.cumulative_pnl[i] - c.running_max[i]
                  /\ c.running_max[i] >= 0

\* C9: drawdown_abs[i] <= 0 for every i, and the reported max_drawdown_abs is
\* the minimum of drawdown_abs over the sequence, 0 for an empty sequence.
C9_MaxDrawdown ==
    /\ IsCurve => \A i \in 1..Len(result.out.drawdown) : result.out.drawdown[i] <= 0
    /\ IsSummary =>
          NumEq(result.out.risk_metrics.max_drawdown, Num(MaxDrawdownAbs(AnalysedPnl), 1))
    /\ IsDalSummary =>
          result.out.max_drawdown =
              MaxDrawdownAbs(Column(SortedByTradeTime(result.trades), "pnl"))

\* C10: on a time-ordered sequence the longest win streak is the longest run
\* of consecutive trades with pnl > 0 and the longest loss streak the longest
\* run with pnl < 0; a break-even trade ends both and counts in neither.
C10_Streaks ==
    /\ IsSummary /\ TimeOrdered(result.trades) =>
          /\ result.out.behavioral_metrics.max_consecutive_wins = LongestRun(AnalysedPnl, 1)
          /\ result.out.behavioral_metrics.max_consecutive_losses = LongestRun(AnalysedPnl, -1)
    /\ IsPatterns /\ TimeOrdered(result.trades) =>
          /\ PatternValue(result.out, "Longest Winning Streak") = LongestRun(AnalysedPnl, 1)
          /\ PatternValue(result.out, "Longest Losing Streak") = LongestRun(AnalysedPnl, -1)

----------------------------------------------------------------------------
Init ==
    /\ store = <<>>
    /\ result = NoResult

Next ==
    \/ \E td \in TradeData : CreateTrade(td)
    \/ \E trade_id \in 1..(MaxStore + 1), i \in DOMAIN UpdatableFields :
          \E j \in i..Len(UpdatableFields) :
             \E v1 \in FieldValues(UpdatableFields[i]), v2 \in FieldValues(UpdatableFields[j]) :
                (i = j => v1 = v2) /\
                UpdateTrade(trade_id, UpdateDict(UpdatableFields[i], v1, UpdatableFields[j], v2))

Spec == Init /\ [][Next]_vars

----------------------------------------------------------------------------
(* Claims about TradeDAL.create_trade / update_trade, checked under Spec *)

\* the trade a call of create_trade, or of update_trade with a price or the
\* quantity among its keys, has just derived and stored
Derived ==
    \/ result.op = "create_trade"
    \/ result.op = "update_trade" /\ result.args \cap PriceKeys # {}

\* C1: the stored pnl of a derived trade is (exit_price - entry_price) * quantity
\* for a long trade and (entry_price - exit_price) * quantity for a short one,
\* for the direction values the callers pass ("LONG"/"SHORT" from the add-trade
\* form and the exchange sync, "Long"/"Short" from the main page).
C1_PnlByDirection ==
    Derived =>
        LET t == result.out
        IN  /\ t.direction \in {"LONG", "Long"} =>
                  t.pnl = (t.exit_price - t.entry_price) * t.quantity
            /\ t.direction \in {"SHORT", "Short"} =>
                  t.pnl = (t.entry_price - t.exit_price) * t.quantity

\* C2: r_multiple = pnl / risk_amount with risk_amount = |entry_price -
\* stop_price| * quantity whenever risk_amount > 0, and when risk_amount = 0
\* r_multiple is the undefined sentinel, not the number 0.
C2_RMultipleOrUndefined ==
    Derived =>
        LET t == result.out
            risk == Abs(t.entry_price - t.stop_price) * t.quantity
        IN  /\ risk > 0 => NumEq(t.r_multiple, Num(t.pnl, risk))
            /\ risk = 0 => ~IsNum(t.r_multiple)

----------------------------------------------------------------------------
(* Claims about the order of the rows and about repeated calls, checked    *)
(* under SpecAnalytics                                                     *)

\* the rows of trades in the order given by the permutation order
Permuted(trades, order) == [k \in DOMAIN order |-> trades[order[k]]]

\* C11: summarize is order-independent: the summary of every permutation of
\* the collection a call analysed is identical, field for field, to the
\* summary the call returned.
C11_OrderIndependent ==
    IsSummary =>
        \A order \in Orders(1..Len(result.trades)) :
            TradingSummary(Permuted(result.trades, order),
                           result.args.start_date, result.args.end_date) = result.out

\* C12: report is deterministic: a call of get_trading_summary that follows a
\* call with the same filter on the unchanged store returns the same output,
\* in whatever order the store hands back the rows.
C12_Deterministic ==
    [][(/\ IsSummary
        /\ result'.op = "get_trading_summary"
        /\ result'.args = result.args
        /\ store' = store) => result'.out = result.out]_vars

----------------------------------------------------------------------------
(* The setups table, TradingAnalytics.get_setup_performance and            *)
(* AnalyticsDAL.get_setup_performance                                      *)

\* rows of the setups table, by id: the first of the default setups
MaxSetups == 2
\* create_default_setups: the names in the order they are inserted
DefaultSetups == <<"Liquidity Trap", "Fake Breakout", "Transition Phase", "Breakout">>
Setups == SubSeq(DefaultSetups, 1, MaxSetups)

\* setup.name if setup else "No Setup", for the row the outer join pairs
\* with the trade
SetupName(trade) ==
    IF trade.setup_id \in 1..MaxSetups THEN Setups[trade.setup_id] ELSE "No Setup"

\* the keys of setup_data in insertion order: the names in the order of
\* their first trade
SetupData(trades) ==
    LET names == {SetupName(trades[i]) : i \in 1..Len(trades)}
        First(name) == SetMin({i \in 1..Len(trades) : SetupName(trades[i]) = name})
        Rank(name) == Cardinality({m \in names : First(m) < First(name)}) + 1
    IN  [k \in 1..Cardinality(names) |-> CHOOSE name \in names : Rank(name) = k]

\* setup_data[setup_name]['trades']
TradesList(trades, setup_name) ==
    SelectSeq(trades, LAMBDA t : SetupName(t) = setup_name)

\* the dictionary appended to results at analytics.py:176-186
SetupResult(setup_name, trades_list) ==
    LET pnl == Column(trades_list, "pnl")
        total_trades == Len(trades_list)
    IN  [setup_name |-> setup_name,
         setup_id |-> IF trades_list[1].setup_id \in 1..MaxSetups
                      THEN trades_list[1].setup_id ELSE None,
         total_trades |-> total_trades,
         winning_trades |-> WinningTrades(pnl),
         win_rate |-> Round2(WinRate(WinningTrades(pnl), total_trades)),
         total_pnl |-> Round2(Num(SumSeq(pnl), 1)),
         avg_pnl |-> Round2(Mean(pnl)),
         avg_r_multiple |-> Round2(NumMean(Column(trades_list, "r_multiple"))),
         profit_factor |-> ReportProfitFactor(ProfitFactor(pnl))]

\* results.sort(key=lambda x: x['total_pnl'], reverse=True): descending and
\* stable, equal keys stay in their order
SortByTotalPnl(results) ==
    LET n == Len(results)
        Before(j, i) ==
            \/ ~NumLeq(results[j].total_pnl, results[i].total_pnl)
            \/ NumEq(results[j].total_pnl, results[i].total_pnl) /\ j < i
        Rank(i) == Cardinality({j \in 1..n : Before(j, i)}) + 1
    IN  [k \in 1..n |-> results[CHOOSE i \in 1..n : Rank(i) = k]]

SetupPerformance(trades) ==
    IF trades = <<>> THEN <<>>
    ELSE SortByTotalPnl([k \in 1..Len(SetupData(trades)) |->
                            SetupResult(SetupData(trades)[k],
                                        TradesList(trades, SetupData(trades)[k]))])

GetSetupPerformance ==
    \E order \in Orders(1..Len(store)) :
        /\ result' = [op |-> "get_setup_performance",
                      args |-> NoArgs,
                      trades |-> Rows(order),
                      out |-> SetupPerformance(Rows(order))]
        /\ UNCHANGED store

\* self.db.query(Trade).filter(Trade.setup_id == setup.id).all()
DalSetupTrades(trades, setup_id) ==
    SelectSeq(trades, LAMBDA t : t.setup_id = setup_id)

\* the dictionary appended to results at dal.py:325-332
DalSetupResult(setup_id, trades) ==
    LET pnl == Column(trades, "pnl")
        total_trades == Len(trades)
    IN  [setup_name |-> Setups[setup_id],
         total_trades |-> total_trades,
         winning_trades |-> WinningTrades(pnl),
         win_rate |-> Num(WinningTrades(pnl) * 100, total_trades),
         total_pnl |-> SumSeq(pnl),
         avg_r_multiple |-> NumMean(Column(trades, "r_multiple"))]

\* a slip in the loop over setups: a setup without trades reported with
\* zeros, for the setup skipped
DalSetupPerformanceNoSkip(trades, setups) ==
    [k \in 1..Len(setups) |->
        IF DalSetupTrades(trades, setups[k]) # <<>>
        THEN DalSetupResult(setups[k], DalSetupTrades(trades, setups[k]))
        ELSE [setup_name |-> Setups[setups[k]], total_trades |-> 0, winning_trades |-> 0,
              win_rate |-> Num(0, 1), total_pnl |-> 0, avg_r_multiple |-> Num(0, 1)]]

\* the loop over setups, in the order setups of the query of dal.py:312; a
\* setup without trades is skipped
DalSetupPerformance(trades, setups) ==
    LET used == SelectSeq(setups, LAMBDA id : DalSetupTrades(trades, id) # <<>>)
    IN  [k \in 1..Len(used) |-> DalSetupResult(used[k], DalSetupTrades(trades, used[k]))]

DalGetSetupPerformance ==
    \E order \in Orders(1..Len(store)), setups \in Orders(1..MaxSetups) :
        /\ result' = [op |-> "dal_get_setup_performance",
                      args |-> NoArgs,
                      trades |-> Rows(order),
                      out |-> DalSetupPerformance(Rows(order), setups)]
        /\ UNCHANGED store

\* the rows the tables of the attribution specification are made of: trades
\* recorded by create_trade without a setup and with either setup, and
\* imported rows, which carry the import's setup id
SetupRows ==
    << NewTrade([direction |-> "Long", entry_price |-> 2, stop_price |-> 1, exit_price |-> 3,
                 quantity |-> 1, trade_time |-> 1, setup_id |-> None]),
       NewTrade([direction |-> "Long", entry_price |-> 2, stop_price |-> 1, exit_price |-> 1,
                 quantity |-> 1, trade_time |-> 1, setup_id |-> None]),
       NewTrade([direction |-> "Long", entry_price |-> 2, stop_price |-> 1, exit_price |-> 3,
                 quantity |-> 1, trade_time |-> 1, setup_id |-> 1]),
       NewTrade([direction |-> "Long", entry_price |-> 2, stop_price |-> 1, exit_price |-> 3,
                 quantity |-> 1, trade_time |-> 2, setup_id |-> 2]),
       NewTrade([direction |-> "Long", entry_price |-> 2, stop_price |-> 1, exit_price |-> 1,
                 quantity |-> 1, trade_time |-> 2, setup_id |-> 2]),
       ImportedTrade([side |-> "long", exec_price |-> 50, quantity |-> 1, pnl |-> 0,
                      timestamp |-> 1, fees |-> 0, order_id |-> 1]),
       ImportedTrade([side |-> "long", exec_price |-> 50, quantity |-> 1, pnl |-> 2,
                      timestamp |-> 2, fees |-> 1, order_id |-> 2]) >>

InitSetups ==
    /\ \E n \in 0..MaxTrades :
          store \in {[i \in 1..n |-> SetupRows[idx[i]]] :
                       idx \in {f \in [1..n -> 1..Len(SetupRows)] :
                                   \A i, j \in 1..n : i <= j => f[i] <= f[j]}}
    /\ result = NoResult

NextSetups ==
    \/ GetSetupPerformance
    \/ DalGetSetupPerformance

SpecSetups == InitSetups /\ [][NextSetups]_vars

----------------------------------------------------------------------------
(* Claims about the attribution by setup, checked under SpecSetups *)

IsSetupPerformance == result.op = "get_setup_performance"
IsDalSetupPerformance == result.op = "dal_get_setup_performance"

\* the sum of total_trades over the partitions of an attribution
RECURSIVE PartitionTrades(_)
PartitionTrades(results) ==
    IF results = <<>> THEN 0 ELSE results[1].total_trades + PartitionTrades(Tail(results))

\* C13: partition conservation: the total_trades of the emitted partitions
\* add up to the total_trades of the unfiltered summary of the same trades,
\* trades without a setup included (under one reserved label).
C13_PartitionConservation ==
    /\ IsSetupPerformance =>
          PartitionTrades(result.out) =
              TradingSummary(result.trades, None, None).overview.total_trades
    /\ IsDalSetupPerformance =>
          PartitionTrades(result.out) = DalTradingSummary(result.trades).total_trades

\* the labels in lexicographic order
LabelOrder == <<"Breakout", "Fake Breakout", "Liquidity Trap", "No Setup", "Transition Phase">>
LabelRank(label) == CHOOSE k \in 1..Len(LabelOrder) : LabelOrder[k] = label

\* total_pnl of a partition as a float, whichever method emitted it
PartitionPnl(p) == IF IsDalSetupPerformance THEN Num(p.total_pnl, 1) ELSE p.total_pnl

\* partition p may stand before partition q: higher total_pnl, then more
\* trades, then the smaller label
InOutputOrder(p, q) ==
    \/ ~NumLeq(PartitionPnl(p), PartitionPnl(q))
    \/ /\ NumEq(PartitionPnl(p), PartitionPnl(q))
       /\ \/ p.total_trades > q.total_trades
          \/ /\ p.total_trades = q.total_trades
             /\ LabelRank(p.setup_name) <= LabelRank(q.setup_name)

\* C14: the attribution list is sorted by total_pnl descending, ties broken
\* by total_trades descending and then by label in lexicographic order.
C14_SortedAttribution ==
    IsSetupPerformance \/ IsDalSetupPerformance =>
        \A i, j \in 1..Len(result.out) :
            i < j => InOutputOrder(result.out[i], result.out[j])

\* every trade analysed carries the same category
OneCategory(trades) ==
    /\ trades # <<>>
    /\ \A i \in 1..Len(trades) : SetupName(trades[i]) = SetupName(trades[1])

\* C15: when all trades carry the same category, the single partition's
\* total_trades, winning_trades, win_rate, total_pnl, avg_r_multiple and
\* profit_factor equal those of the summary of the whole collection.
C15_SameFormulas ==
    /\ IsSetupPerformance /\ OneCategory(result.trades) =>
          LET s == TradingSummary(result.trades, None, None)
          IN  /\ Len(result.out) = 1
              /\ result.out[1].total_trades = s.overview.total_trades
              /\ result.out[1].winning_trades = s.overview.winning_trades
              /\ result.out[1].win_rate = s.overview.win_rate
              /\ result.out[1].total_pnl = s.pnl_metrics.total_pnl
              /\ result.out[1].avg_r_multiple = s.risk_metrics.avg_r_multiple
              /\ result.out[1].profit_factor = s.overview.profit_factor
    /\ IsDalSetupPerformance /\ OneCategory(result.trades) =>
          LET s == DalTradingSummary(result.trades)
          IN  /\ Len(result.out) = 1
              /\ result.out[1].total_trades = s.total_trades
              /\ result.out[1].winning_trades = s.winning_trades
              /\ result.out[1].win_rate = s.win_rate
              /\ result.out[1].total_pnl = s.total_pnl
              /\ result.out[1].avg_r_multiple = s.avg_r_multiple
              /\ "profit_factor" \in DOMAIN result.out[1]
              /\ result.out[1].profit_factor = s.profit_factor

----------------------------------------------------------------------------
(* Claims about the date filter and about failures, checked under          *)
(* SpecAnalytics                                                           *)

\* the exit time of a stored trade; a trade recorded by create_trade keeps
\* only its trade_time
ExitTime(trade) == IF trade.exit_time # None THEN trade.exit_time ELSE trade.trade_time

InDateRange(trade, start_date, end_date) ==
    start_date <= ExitTime(trade) /\ ExitTime(trade) <= end_date

\* C16: with a date range {start, end} a summary analyses exactly the stored
\* trades with start <= exit time <= end, those recorded through create_trade
\* included.
C16_DateRange ==
    (IsSummary \/ IsDalSummary) /\ result.args.start_date # None /\ result.args.end_date # None =>
        /\ \A k \in 1..Len(result.trades) :
              InDateRange(result.trades[k], result.args.start_date, result.args.end_date)
        /\ Len(result.trades) =
              Cardinality({i \in 1..Len(store) :
                              InDateRange(store[i], result.args.start_date, result.args.end_date)})

----------------------------------------------------------------------------
(* The intake of trades: create_trade with the values a caller may pass    *)
(* and the import of a CSV row, cells empty or not                         *)

\* rows the trades table may hold after an import under SpecIntake
MaxImported == 2

\* a CSV cell: <<>> when empty or NaN, <<v>> when it holds the number v
EmptyCell == <<>>
Cell(v) == <<v>>

\* safe_float(value, default): the default for an empty cell
SafeFloat(value, default) == IF value = EmptyCell THEN default ELSE value[1]

\* the trade_data convert_to_internal_format builds from a row of the file
ConvertToInternalFormat(row) ==
    ImportedTrade([side |-> row.side,
                   exec_price |-> SafeFloat(row.exec_price, 0),
                   quantity |-> SafeFloat(row.quantity, 0),
                   pnl |-> SafeFloat(row.pnl, 0),
                   timestamp |-> row.timestamp,
                   fees |-> SafeFloat(row.fees, 0),
                   order_id |-> row.order_id])

\* the existing trade the duplicate check of import_to_database finds
ExistingTrade(external_id) ==
    \E i \in 1..Len(store) :
        store[i].external_id = external_id /\ store[i].source = "csv_import"

\* the rows of a file for which the loop of import_to_database finds no
\* existing trade: the session is made with autoflush=False and the loop
\* commits after its last row, so the query sees the rows committed before the
\* call and none of those the call has added
NewTrades(rows) == SelectSeq(rows, LAMBDA row : ~ExistingTrade(row.order_id))

\* convert_to_internal_format followed by import_to_database, for the rows
\* of a file
ImportToDatabase(rows) ==
    /\ Len(store) + Len(NewTrades(rows)) <= MaxImported
    /\ store' = store \o [k \in 1..Len(NewTrades(rows)) |->
                             ConvertToInternalFormat(NewTrades(rows)[k])]
    /\ result' = [op |-> "import_to_database", args |-> rows, trades |-> <<>>,
                  out |-> [imported_count |-> Len(NewTrades(rows))]]

\* prices and quantities a caller of create_trade can pass: the number
\* inputs of the main page start at 0 and nothing checks the dictionary
RawPrices == -1..2
RawQuantities == -1..1

RawTradeData ==
    [direction : {"Long"},
     entry_price : RawPrices,
     stop_price : {1},
     exit_price : RawPrices,
     quantity : RawQuantities,
     trade_time : {1},
     setup_id : {None}]

CsvRows ==
    [side : {"long"},
     exec_price : {EmptyCell, Cell(-50), Cell(0), Cell(50)},
     quantity : {EmptyCell, Cell(-1), Cell(0), Cell(1)},
     pnl : {Cell(1)},
     timestamp : {1},
     fees : {EmptyCell},
     order_id : 1..2]

\* the files imported: one row of any kind, or two rows with a price and a
\* quantity, with equal or different order ids
CsvFiles ==
    {<<row>> : row \in CsvRows}
    \cup {<<r1, r2>> : r1, r2 \in {row \in CsvRows : row.exec_price = Cell(50)
                                                      /\ row.quantity = Cell(1)}}

NextIntake ==
    \/ \E td \in RawTradeData : CreateTrade(td)
    \/ \E rows \in CsvFiles : ImportToDatabase(rows)

SpecIntake == Init /\ [][NextIntake]_vars

\* C17: a trade whose entry_price, exit_price or quantity is not strictly
\* positive is rejected: nothing is stored for it, and no default value takes
\* the place of a missing one, so every stored trade has all three positive.
C17_RejectsInvalid ==
    \A i \in 1..Len(store) :
        /\ store[i].entry_price > 0
        /\ store[i].exit_price > 0
        /\ store[i].quantity > 0

\* a value a caller cannot tell from the result of a computation that went well
LooksNormal(out) == "overview" \in DOMAIN out

\* C18: no error is caught and suppressed: when computing the summary fails
\* (here: the time span of two or more trades that have no entry or exit
\* time), the caller does not get a normal-looking summary in its place.
C18_FailureObserved ==
    IsSummary /\ TotalDaysRaises(result.trades) => ~LooksNormal(result.out)

\* C19: no component mutates its input: after the pattern analysis the frame
\* built from the trades has the columns and values it had before, and the
\* component called last sees the numeric columns of the original.
C19_InputUnchanged ==
    IsPatterns /\ result.trades # <<>> =>
        /\ result.df = DataFrame(result.trades)
        /\ result.numeric_columns = NumericColumns(DataFrame(result.trades))

\* the numeric fields of a summary
SummaryNumbers(s) ==
    {s.overview.win_rate, s.overview.profit_factor}
    \cup {s.pnl_metrics[f] : f \in DOMAIN s.pnl_metrics}
    \cup {s.risk_metrics[f] : f \in DOMAIN s.risk_metrics}
    \cup {s.behavioral_metrics.trades_per_day, s.behavioral_metrics.pnl_volatility}

\* C20: no field of a summary is NaN or a silently substituted zero: a field
\* is the undefined sentinel or a proper number, and the fields that cannot
\* be computed (the volatility and the Sharpe ratio of a single trade, the
\* Sharpe ratio of trades without spread) carry the sentinel.
C20_NoNaNNoSilentZero ==
    IsSummary /\ result.trades # <<>> =>
        /\ \A v \in SummaryNumbers(result.out) : IsNum(v) \/ v = NA
        /\ Len(result.trades) = 1 =>
              /\ result.out.behavioral_metrics.pnl_volatility = NA
              /\ result.out.risk_metrics.sharpe_ratio = NA
        /\ Len(result.trades) > 1 /\ PnlVariance(AnalysedPnl).num = 0 =>
              result.out.risk_metrics.sharpe_ratio = NA

----------------------------------------------------------------------------
(* Claims about the order of the analysed sequence and the percentage      *)
(* drawdown, checked under SpecAnalytics                                   *)

\* trades is in non-decreasing exit-time order
ExitTimeOrdered(trades) ==
    \A i, j \in 1..Len(trades) : i < j => ExitTime(trades[i]) <= ExitTime(trades[j])

\* C21: the sequence fed to the cumulative P&L, the running peak and the
\* streak logic is in non-decreasing exit-time order in every call of
\* get_trading_summary, generate_pnl_curve and AnalyticsDAL.get_trading_summary,
\* whatever order the store returned the trades in.
C21_TimeOrderedInput ==
    /\ IsSummary => ExitTimeOrdered(result.trades)
    /\ IsCurve => ExitTimeOrdered(result.trades)
    /\ IsDalSummary => ExitTimeOrdered(SortedByTradeTime(result.trades))

\* C22: drawdown_pct[i] = drawdown_abs[i] / running_peak[i] * 100 when
\* running_peak[i] > 0 and 0 otherwise, so it is finite and never positive,
\* also when the running peak is 0 or the cumulative P&L was never positive;
\* the max_drawdown_pct of a summary is finite and never positive.
C22_DrawdownPct ==
    /\ IsCurve =>
          \A i \in 1..Len(result.out.drawdown_pct) :
              LET pct == result.out.drawdown_pct[i]
                  peak == RunningPeak(AnalysedPnl, i)
              IN  /\ IsNum(pct)
                  /\ NumLeq(pct, Num(0, 1))
                  /\ pct = IF peak > 0 THEN Num(DrawdownAbs(AnalysedPnl, i) * 100, peak)
                           ELSE Num(0, 1)
    /\ IsSummary =>
          /\ IsNum(result.out.risk_metrics.max_drawdown_pct)
          /\ NumLeq(result.out.risk_metrics.max_drawdown_pct, Num(0, 1))

----------------------------------------------------------------------------
(* Claims about the runs of the streak analysis, checked under             *)
(* SpecAnalytics                                                           *)

\* the rows at which a run of equal values of win ends
RunEnds(win) == {i \in 1..Len(win) : i = Len(win) \/ win[i + 1] # win[i]}

\* C23: streak exhaustiveness: the maximal runs the streak analysis identifies
\* partition the analysed sequence: every trade lies in exactly one run and the
\* lengths of all runs add up to the number of trades, break-even trades
\* included.
C23_StreaksExhaustive ==
    /\ IsPatterns /\ result.trades # <<>> =>
          LET is_winner == result.df.is_winner
              runs == WinningStreaks(AnalysedPnl) \cup LosingStreaks(AnalysedPnl)
              InRun(i, s) == s <= i /\ i < s + RunLength(is_winner, s)
          IN  /\ SumSeq([i \in 1..Len(is_winner) |->
                            IF i \in runs THEN RunLength(is_winner, i) ELSE 0])
                    = Len(result.trades)
              /\ \A i \in 1..Len(result.trades) :
                    Cardinality({s \in runs : InRun(i, s)}) = 1
              /\ \A i \in 1..Len(result.trades) :
                    result.df.streak[i] = Cardinality({s \in runs : s <= i})
    /\ IsSummary /\ result.trades # <<>> =>
          LET win == WinColumn(AnalysedPnl)
          IN  SumSeq([i \in 1..Len(win) |-> IF i \in RunEnds(win) THEN Streak(win, i) ELSE 0])
                  = Len(result.trades)

\* a pattern analysis of a win, a break-even trade and a loss, in three runs
\* or in two
C23_Witness ==
    /\ IsPatterns
    /\ Len(result.trades) = 3
    /\ Wins(AnalysedPnl) = 1 /\ Losses(AnalysedPnl) = 1
    /\ Cardinality(RunStarts(result.df.is_winner)) >= 2

----------------------------------------------------------------------------
(* Claims about empty partitions, checked under SpecSetups *)

\* C24: attribution never emits a partition with zero trades: every entry of
\* the list get_setup_performance returns has total_trades >= 1 and carries the
\* label of at least one analysed trade, also when the setups table holds
\* setups that no trade uses.
C24_NoEmptyPartition ==
    IsSetupPerformance \/ IsDalSetupPerformance =>
        \A k \in 1..Len(result.out) :
            /\ result.out[k].total_trades >= 1
            /\ \E i \in 1..Len(result.trades) :
                  SetupName(result.trades[i]) = result.out[k].setup_name

\* an attribution by the loop over the setups table, where every trade
\* carries the first setup and the second setup has none
C24_Witness ==
    /\ IsDalSetupPerformance
    /\ result.trades # <<>>
    /\ \A i \in 1..Len(result.trades) : result.trades[i].setup_id = 1
    /\ Len(Setups) > 1
    /\ Len(result.out) = 1

----------------------------------------------------------------------------
(* Claims about the volatility ratio, checked under SpecAnalytics *)

\* the population variance of pnl: the mean squared deviation, divided by n
PopulationVariance(pnl) ==
    LET n == Len(pnl)
        squares == SumSeq([i \in 1..n |-> pnl[i] * pnl[i]])
    IN  Num(n * squares - SumSeq(pnl) * SumSeq(pnl), n * n)

\* mean(pnl) / population standard deviation, to two decimals; 0 for fewer
\* than 2 trades and for zero variance
VolatilityRatio(pnl) ==
    IF Len(pnl) < 2 \/ PopulationVariance(pnl).num = 0 THEN Num(0, 1)
    ELSE LET v == PopulationVariance(pnl)
             m == Mean(pnl)
             h == RoundSqrtHundredths(m.num * m.num * v.den, m.den * m.den * v.num)
         IN  Num(IF m.num < 0 THEN -h ELSE h, 100)

\* C25: the volatility ratio of a summary (its sharpe_ratio) is mean(pnl)
\* divided by the population (divide-by-n) standard deviation of pnl, and 0
\* when there are fewer than 2 trades or all pnl are equal.
C25_VolatilityRatio ==
    IsSummary /\ result.trades # <<>> /\ ~TotalDaysRaises(result.trades) =>
        result.out.risk_metrics.sharpe_ratio = VolatilityRatio(AnalysedPnl)

----------------------------------------------------------------------------
(* Claims about the stored trades after any calls of create_trade and      *)
(* update_trade, checked under Spec                                        *)

\* C26: after any sequence of create_trade and update_trade calls (updates of
\* any subset of the fields, direction alone or pnl alone included) the pnl
\* and the r_multiple of every stored trade are the values the formulas of
\* create_trade give for its stored direction, prices and quantity.
C26_StoredDerivedConsistent ==
    \A i \in 1..Len(store) :
        LET t == store[i]
        IN  /\ t.pnl = CreatePnl(t)
            /\ t.r_multiple =
                  RMultiple(CreatePnl(t), RiskAmount(t.entry_price, t.stop_price, t.quantity))

----------------------------------------------------------------------------
(* Claims that compare the implementations of the maximum drawdown and the *)
(* streaks with the counts, checked under SpecAnalytics                    *)

IsPerformanceData == result.op = "extract_performance_data"

\* C27: the maximum drawdown implementations agree: on a trade sequence
\* processed in the same order, the non-negative max_drawdown of
\* AnalyticsDAL.get_trading_summary and of _extract_performance_data is the
\* negation of the max_drawdown of TradingAnalytics.get_trading_summary.
C27_DrawdownsAgree ==
    /\ (IsDalSummary \/ IsPerformanceData) /\ result.trades # <<>> =>
          result.out.max_drawdown =
              -MaxDrawdown(Column(SortedByTradeTime(result.trades), "pnl"))
    /\ (/\ IsSummary /\ result.trades # <<>> /\ ~TotalDaysRaises(result.trades)
        /\ SortedByTradeTime(result.trades) = result.trades) =>
          NumEq(result.out.risk_metrics.max_drawdown,
                Num(-DalMaxDrawdown(result.trades), 1))

\* C28: in every summary of TradingAnalytics.get_trading_summary the streak
\* fields are consistent with the counts: max_consecutive_wins <=
\* winning_trades and max_consecutive_losses <= losing_trades.
C28_StreaksWithinCounts ==
    IsSummary =>
        /\ result.out.behavioral_metrics.max_consecutive_wins
              <= result.out.overview.winning_trades
        /\ result.out.behavioral_metrics.max_consecutive_losses
              <= result.out.overview.losing_trades

----------------------------------------------------------------------------
(* Claims about repeated imports, checked under SpecIntake *)

\* the table holds at most one imported trade per external_id
DuplicateFree ==
    \A i, j \in 1..Len(store) :
        (/\ i # j
         /\ store[i].source = "csv_import"
         /\ store[j].source = "csv_import") => store[i].external_id # store[j].external_id

\* C29: CSV import is duplicate-free and idempotent: after every call of
\* import_to_database (a file with the same external_id twice and a second
\* import of a file included) the table holds at most one trade per source and
\* external_id, and the call returns the number of trades it has stored.
C29_ImportIdempotent ==
    [][result'.op = "import_to_database" =>
          /\ DuplicateFree'
          /\ result'.out.imported_count = Len(store') - Len(store)]_vars

----------------------------------------------------------------------------
(* Claims about the performance after wins and after losses, checked under *)
(* SpecAnalytics                                                           *)

IsStreakPatterns == result.op = "analyze_streak_patterns"

\* the rows counted under a pattern of the streak analysis
Counted(after) == {i \in 1..Len(after) : after[i]}

\* the entry listed under pattern_name is computed from exactly the rows
\* counted, and is missing when none is counted
ListedFor(patterns, pattern_name, pnl, counted) ==
    IF counted = {}
    THEN \A k \in 1..Len(patterns) : patterns[k].pattern_name # pattern_name
    ELSE \E k \in 1..Len(patterns) :
            /\ patterns[k].pattern_name = pattern_name
            /\ patterns[k].avg_pnl =
                  Num(SumSeq([i \in 1..Len(pnl) |-> IF i \in counted THEN pnl[i] ELSE 0]),
                      Cardinality(counted))

\* C30: in _analyze_streak_patterns, with the trades ordered by trade_time, a
\* trade is counted under 'Performance After Wins' iff its immediate
\* predecessor has pnl > 0 and under 'Performance After Losses' iff its
\* predecessor has pnl < 0; the two sets are disjoint, and the first trade and
\* every trade that follows a break-even trade are in neither.
C30_AfterWinAfterLoss ==
    IsStreakPatterns /\ Len(result.trades) > 1 =>
        LET pnl == AnalysedPnl
            wins == Counted(result.after_win)
            losses == Counted(result.after_loss)
        IN  /\ TimeOrdered(result.trades)
            /\ wins = {i \in 2..Len(pnl) : pnl[i - 1] > 0}
            /\ losses = {i \in 2..Len(pnl) : pnl[i - 1] < 0}
            /\ wins \cap losses = {}
            /\ 1 \notin wins \cup losses
            /\ \A i \in 2..Len(pnl) : pnl[i - 1] = 0 => i \notin wins \cup losses
            /\ ListedFor(result.out, "Performance After Wins", pnl, wins)
            /\ ListedFor(result.out, "Performance After Losses", pnl, losses)

\* a streak analysis of three trades where the second follows a win and the
\* third a break-even trade
C30_Witness ==
    /\ IsStreakPatterns
    /\ Len(result.trades) = 3
    /\ AnalysedPnl[1] > 0 /\ AnalysedPnl[2] = 0
    /\ result.after_win[2]
    /\ Len(result.out) = 1

====
